---------------------------- MODULE Spec2Model ----------------------------
(***************************************************************************)
(* QICAS orbital optimisation (qio/grad/jacobi.py) and tailored CCSD       *)
(* (tccsd.py).                                                             *)
(*                                                                         *)
(* Real numbers are fixed-point integers.  Occupations and local spectra   *)
(* are counted in eighths; entropies in units of 1e-6; pairwise and        *)
(* aggregate costs in units of 1e-8; CI weights in units of 1e-9.  NaN is  *)
(* a value of its own, with IEEE semantics: every comparison with it is    *)
(* false and it is absorbing under + and *.                                *)
(***************************************************************************)
EXTENDS Integers, Sequences, FiniteSets, TLC

VARIABLES
    \* ---- reorder_fast / reorder: the inputs
    orbs,        \* per orbital k: gamma[2k,2k], gamma[2k+1,2k+1], Gamma[k,k,k,k]
    n_cas,       \* n_cas (reorder_fast), N_cas (reorder)
    n_core,      \* n_core (reorder_fast)
    \* ---- reorder_fast: locals and result
    rf_pc,       \* "call" | "done"
    rf_outcome,  \* "none" | "ok" | "IndexError" | "AssertionError"
    P,           \* the permutation matrix, P[r][c]
    s_val,       \* tracked entropies
    occ_num,     \* tracked occupation numbers
    \* ---- reorder (legacy): locals and result
    ro_pc,       \* "call" | "while" | "for" | "closed" | "done"
    test,        \* the bubble sort's "swapped in this pass" flag
    ro_i,        \* index of the for loop inside the while loop
    ro_j,        \* index of the closed-orbital loop
    S1,          \* tracked entropies
    N1,          \* tracked occupation numbers
    ro_rotations,\* the rotation history
    V,           \* the permutation matrix
    n_closed,    \* predicted number of closed orbitals
    passes,      \* how often the while loop has been entered
    \* ---- jacobi_transform: arguments and result
    xf_pc,       \* "call" | "done"
    gamma,       \* the caller's 1-RDM, gamma[<<r, c>>], 2N x 2N
    Gamma,       \* the caller's 2-RDM, Gamma[<<a, b, c, d>>]
    xf_i, xf_j,  \* the two orbitals
    xf_t,        \* the angle, in quarter turns
    gamma_,      \* the returned 1-RDM
    Gamma_,      \* the returned 2-RDM
    \* ---- jacobi_direct on one pair, and the rotation it proposes
    jd_pc,       \* "call" | "returned" | "transformed"
    land,        \* the pair's cost at every angle, for the RDMs as passed
    orient,      \* the angle the pair has been rotated by since
    jd_result,   \* the returned angle, or None
    \* ---- minimize_orb_corr_jacobi
    mo_pc,       \* "call" | "cycle" | "pairs" | "cycle_end" | "done"
    gammaArg,    \* the caller's gamma array
    GammaArg,    \* the caller's Gamma array
    inactive_indices,
    max_cycle,
    gamma0,      \* the working 1-RDM
    Gamma0,      \* the working 2-RDM
    U,           \* the accumulated rotation
    rotations,   \* the rotation history
    new_cost,    \* the last recorded aggregate cost
    cycle_cost,  \* the aggregate cost recorded at the end of the last cycle
    cyc,         \* n, the index of the running cycle
    orb_list,    \* the shuffled orbital order of the running cycle
    mo_a, mo_b,  \* indices of the two nested pair loops
    agg,         \* what get_cost_fqi returns for the working RDMs
    cycle_start, \* agg when the running cycle began
    accepted,    \* rotations accepted in the running cycle
    \* ---- make_tailored_ccsd and the solver it is installed on
    tc_pc,       \* "call" | "raised" | "returned" | "tailored" | "tailored2"
    tc_result,   \* what make_tailored_ccsd gave: "cc" or "AssertionError"
    c0, c1, c2,  \* the CISD amplitudes of cas.ci
    pocc, pvir,  \* the occupied and virtual projectors
    cc_callback, \* cc.callback
    t1cas_fci,   \* target singles
    t2cas_fci,   \* target doubles
    t1new,       \* the solver's trial singles
    t2new,       \* the solver's trial doubles
    dt1, dt2     \* the correction the callback computed last

rfVars == <<rf_pc, rf_outcome, P, s_val, occ_num>>
roVars == <<ro_pc, test, ro_i, ro_j, S1, N1, ro_rotations, V, n_closed, passes>>
xfVars == <<xf_pc, gamma, Gamma, xf_i, xf_j, xf_t, gamma_, Gamma_>>
inVars == <<orbs, n_cas, n_core>>
jdVars == <<jd_pc, land, orient, jd_result>>
moVars == <<mo_pc, gammaArg, GammaArg, inactive_indices, max_cycle, gamma0, Gamma0,
            U, rotations, new_cost, cycle_cost, cyc, orb_list, mo_a, mo_b, agg,
            cycle_start, accepted>>
tcVars == <<tc_pc, tc_result, c0, c1, c2, pocc, pvir, cc_callback, t1cas_fci,
            t2cas_fci, t1new, t2new, dt1, dt2>>
vars == <<inVars, rfVars, roVars, xfVars, jdVars, moVars, tcVars>>

\* what each operation leaves alone
exceptRF == <<roVars, xfVars, jdVars, moVars, tcVars>>
exceptRO == <<rfVars, xfVars, jdVars, moVars, tcVars>>
exceptXF == <<inVars, rfVars, roVars, jdVars, moVars, tcVars>>
exceptJD == <<inVars, rfVars, roVars, xfVars, moVars, tcVars>>
exceptMO == <<inVars, rfVars, roVars, xfVars, jdVars, tcVars>>
exceptTC == <<inVars, rfVars, roVars, xfVars, jdVars, moVars>>

-----------------------------------------------------------------------------
(* Bounds *)

\* number of spatial orbitals, len(Gamma)
NOrb == 3

\* steps of the fine grid in one step of the coarse grid (grid / small_grid,
\* 100 in the source): angles are counted in steps of the fine grid
FinePerCoarse == 2

\* points of the coarse grid np.arange(grid, np.pi, grid) (314 in the source)
CoarsePoints == 3

\* largest max_cycle passed to minimize_orb_corr_jacobi
MaxCycle == 2

\* occupied and virtual orbitals of the CC solver, cc.get_nocc() and the rest
NOcc == 2
NVir == 1

-----------------------------------------------------------------------------
(* Numbers *)

NaN == 0 - 1

IsNaN(x) == x = NaN

\* a < b on floats: false when either is NaN
RECURSIVE SumOver(_, _)
SumOver(f, S) ==
    IF S = {} THEN 0
    ELSE LET x == CHOOSE y \in S : TRUE IN f[x] + SumOver(f, S \ {x})

\* f[0] + ... + f[n-1]
RECURSIVE SumIdx(_, _)
SumIdx(f, n) == IF n <= 0 THEN 0 ELSE f[n - 1] + SumIdx(f, n - 1)

\* the orbitals one entry of an RDM diagonal can describe, in eighths:
\* maximally mixed; nearly closed; nearly empty (same entropy as nearly
\* closed); exactly doubly occupied (a zero in its spectrum); two generic.
OrbChoices ==
    { [nu |-> 4, nd |-> 4, nn |-> 2],
      [nu |-> 6, nd |-> 6, nn |-> 5],
      [nu |-> 2, nd |-> 2, nn |-> 1],
      [nu |-> 8, nd |-> 8, nn |-> 8],
      [nu |-> 3, nd |-> 3, nn |-> 1],
      [nu |-> 4, nd |-> 3, nn |-> 1] }

Idx(n) == 0 .. (n - 1)

-----------------------------------------------------------------------------
(* reorder_fast *)

\* 1e6 * p*log(p) for p = k/8, k = 1..8 (numpy: np.log(spec)*spec)
PLogP == <<-259930, -346574, -367811, -346574, -293752, -215762, -116840, 0>>

\* np.log(p)*p: log(0)*0 = -inf*0 = nan, log(p<0) = nan
LogTimes(k) == IF k <= 0 \/ k > 8 THEN NaN ELSE PLogP[k]

\* spec = [1-nu-nd+nn, nu-nn, nd-nn, nn]
Spectrum(o) == <<8 - o.nu - o.nd + o.nn, o.nu - o.nn, o.nd - o.nn, o.nn>>

\* s_val = -np.sum(np.log(spec)*spec, axis=0)
Entropy(o) ==
    LET sp == Spectrum(o) IN
    IF \E k \in 1..4 : IsNaN(LogTimes(sp[k])) THEN NaN
    ELSE 0 - (LogTimes(sp[1]) + LogTimes(sp[2]) + LogTimes(sp[3]) + LogTimes(sp[4]))

\* occ_num = nu + nd
Occupation(o) == o.nu + o.nd

Perms(n) == {p \in [Idx(n) -> Idx(n)] : \A a, b \in Idx(n) : a # b => p[a] # p[b]}

\* a sorts before b for np.argsort: ascending, NaN last; ties in any order
\* (the default kind is not stable)
SortsBefore(a, b) == IsNaN(b) \/ (~IsNaN(a) /\ a <= b)

\* np.argsort(v): every index order that sorts v
ArgSorts(v) ==
    LET n == Cardinality(DOMAIN v) IN
    {p \in Perms(n) : \A k \in Idx(n - 1) : SortsBefore(v[p[k]], v[p[k + 1]])}

\* a[::-1]
Reversed(a) ==
    LET n == Cardinality(DOMAIN a) IN [k \in Idx(n) |-> a[n - 1 - k]]

\* v[inds]
Take(v, inds) == [k \in DOMAIN inds |-> v[inds[k]]]

\* v[from:]
SliceFrom(v, from) ==
    LET n == Cardinality(DOMAIN v) IN [k \in Idx(n - from) |-> v[from + k]]

\* v[:to]
SliceTo(v, to) == [k \in Idx(to) |-> v[k]]

\* np.eye(n)
Eye(n) == [r \in Idx(n) |-> [c \in Idx(n) |-> IF r = c THEN 1 ELSE 0]]

\* np.concatenate((np.arange(n_cas), n_cas + inds_inactive))
InactiveInds(nc, inds_inactive) ==
    LET m == Cardinality(DOMAIN inds_inactive) IN
    [k \in Idx(nc + m) |-> IF k < nc THEN k ELSE nc + inds_inactive[k - nc]]

\* np.concatenate((inds_active, np.arange(n_cas, n_orb)))
ActiveInds(nc, n, inds_active) ==
    [k \in Idx(n) |-> IF k < nc THEN inds_active[k] ELSE k]

\* faulty variant: the core block is taken from the head of the entropy order
MoveCoreInds_NoMove(nc, ncore, n) == [k \in Idx(n) |-> k]

\* range(n_cas, n_cas+n_core) + range(n_cas) + range(n_cas+n_core, n_orb)
MoveCoreInds(nc, ncore, n) ==
    [k \in Idx(n) |->
        IF k < ncore THEN nc + k
        ELSE IF k < ncore + nc THEN k - ncore
        ELSE k]

\* P @ v with IEEE products: 0*nan = nan, so one NaN in v poisons every row
MatVec(M, v) ==
    [r \in DOMAIN M |->
        IF \E c \in DOMAIN v : IsNaN(v[c]) THEN NaN
        ELSE SumOver([c \in DOMAIN v |-> M[r][c] * v[c]], DOMAIN v)]

\* np.allclose(a, b): NaN is close to nothing
AllClose(a, b) ==
    \A k \in DOMAIN a : ~IsNaN(a[k]) /\ ~IsNaN(b[k]) /\ a[k] = b[k]

\* occ_num[k] for a Python index: negative wraps, k >= len raises
PyIndexOk(k, n) == k < n /\ k >= 0 - n

s_val_init == [k \in Idx(NOrb) |-> Entropy(orbs[k])]
occ_init == [k \in Idx(NOrb) |-> Occupation(orbs[k])]

ReorderFast ==
    /\ rf_pc = "call"
    /\ \E i1 \in ArgSorts(s_val_init) :
         LET inds1 == Reversed(i1)
             P1 == Take(Eye(NOrb), inds1)
             s1 == Take(s_val_init, inds1)
             o1 == Take(occ_init, inds1)
         IN
         \E i2 \in ArgSorts(SliceFrom(o1, n_cas)) :
           LET inds2 == InactiveInds(n_cas, Reversed(i2))
               P2 == Take(P1, inds2)
               s2 == Take(s1, inds2)
               o2 == Take(o1, inds2)
           IN
           \E i3 \in ArgSorts(SliceTo(o2, n_cas)) :
             LET inds3 == ActiveInds(n_cas, NOrb, Reversed(i3))
                 s3 == Take(s2, inds3)
                 o3 == Take(o2, inds3)
                 P3 == Take(P2, inds3)
                 inds4 == MoveCoreInds(n_cas, n_core, NOrb)
                 P4 == Take(P3, inds4)
                 s4 == Take(s3, inds4)
                 o4 == Take(o3, inds4)
             IN
             /\ P' = P4
             /\ s_val' = s4
             /\ occ_num' = o4
             /\ rf_outcome' =
                  IF ~PyIndexOk(n_core + n_cas, NOrb) THEN "IndexError"
                  ELSE IF ~AllClose(MatVec(P4, s_val_init), s4) THEN "AssertionError"
                  ELSE "ok"
    /\ rf_pc' = "done"
    /\ UNCHANGED <<inVars, exceptRF>>

RFIdle ==
    /\ rf_pc = "idle"
    /\ rf_outcome = "none"
    /\ P = <<>>
    /\ s_val = <<>>
    /\ occ_num = <<>>

ROIdle ==
    /\ ro_pc = "idle"
    /\ test = 0
    /\ ro_i = 0
    /\ ro_j = 0
    /\ S1 = <<>>
    /\ N1 = <<>>
    /\ ro_rotations = <<>>
    /\ V = <<>>
    /\ n_closed = 0
    /\ passes = 0

XFIdle ==
    /\ xf_pc = "idle"
    /\ gamma = <<>>
    /\ Gamma = <<>>
    /\ xf_i = 0
    /\ xf_j = 0
    /\ xf_t = 0
    /\ gamma_ = <<>>
    /\ Gamma_ = <<>>

JDIdle ==
    /\ jd_pc = "idle"
    /\ land = <<>>
    /\ orient = 0
    /\ jd_result = 0

MOIdle ==
    /\ mo_pc = "idle"
    /\ gammaArg = <<>>
    /\ GammaArg = <<>>
    /\ inactive_indices = {}
    /\ max_cycle = 0
    /\ gamma0 = <<>>
    /\ Gamma0 = <<>>
    /\ U = <<>>
    /\ rotations = <<>>
    /\ new_cost = [h |-> 0, e |-> 0]
    /\ cycle_cost = [h |-> 0, e |-> 0]
    /\ cyc = 0
    /\ orb_list = <<>>
    /\ mo_a = 0
    /\ mo_b = 0
    /\ agg = [h |-> 0, e |-> 0]
    /\ cycle_start = [h |-> 0, e |-> 0]
    /\ accepted = 0

TCIdle ==
    /\ tc_pc = "idle"
    /\ tc_result = "none"
    /\ c0 = 0
    /\ c1 = <<>>
    /\ c2 = <<>>
    /\ pocc = <<>>
    /\ pvir = <<>>
    /\ cc_callback = "None"
    /\ t1cas_fci = <<>>
    /\ t2cas_fci = <<>>
    /\ t1new = <<>>
    /\ t2new = <<>>
    /\ dt1 = <<>>
    /\ dt2 = <<>>

InputsIdle ==
    /\ orbs = <<>>
    /\ n_cas = 0
    /\ n_core = 0

RFInit ==
    /\ ROIdle
    /\ XFIdle
    /\ JDIdle
    /\ MOIdle
    /\ TCIdle
    /\ orbs \in [Idx(NOrb) -> OrbChoices]
    /\ n_cas \in 0 .. NOrb
    /\ n_core \in 0 .. (NOrb - n_cas)
    /\ rf_pc = "call"
    /\ rf_outcome = "none"
    /\ P = <<>>
    /\ s_val = <<>>
    /\ occ_num = <<>>

RFNext == ReorderFast

SpecReorderFast == RFInit /\ [][RFNext]_vars

-----------------------------------------------------------------------------
(* reorder (legacy adjacent-swap reordering) *)

\* qio.entropy.shannon on <<1-nu, nu, 1-nd, nd>>, in units of 1e-6: a zero
\* probability contributes exactly 0
Shannon2(o) ==
    LET term(k) == IF k = 0 THEN 0 ELSE 0 - PLogP[k] IN
    term(8 - o.nu) + term(o.nu) + term(8 - o.nd) + term(o.nd)

\* A @ B
MatMul(A, B) ==
    [r \in DOMAIN A |-> [c \in DOMAIN A |->
        SumOver([k \in DOMAIN A |-> A[r][k] * B[k][c]], DOMAIN A)]]

\* V_: the identity with rows i and i+1 exchanged
Transposition(n, i) ==
    [r \in Idx(n) |-> [c \in Idx(n) |->
        IF r = i /\ c = i THEN 0
        ELSE IF r = i + 1 /\ c = i + 1 THEN 0
        ELSE IF r = i /\ c = i + 1 THEN 1
        ELSE IF r = i + 1 /\ c = i THEN 1
        ELSE IF r = c THEN 1 ELSE 0]]

\* c = v[i]; v[i] = v[i+1]; v[i+1] = c
SwapAdjacent(v, i) == [v EXCEPT ![i] = v[i + 1], ![i + 1] = v[i]]

\* faulty variant: the comparison also exchanges equal neighbours
NeedsSwap_OrEqual(a, b) == a <= b

\* if S1[i] < S1[i+1]
NeedsSwap(a, b) == a < b

\* [[i+1, i+2, 0]]
SwapRecord(i) == <<i + 1, i + 2, 0>>

\* S1, N1, rotations, V = np.eye(no), test = 1
ReorderCall ==
    /\ ro_pc = "call"
    /\ S1' = [k \in Idx(NOrb) |-> Shannon2(orbs[k])]
    /\ N1' = [k \in Idx(NOrb) |-> Occupation(orbs[k])]
    /\ ro_rotations' = <<>>
    /\ V' = Eye(NOrb)
    /\ test' = 1
    /\ ro_pc' = "while"
    /\ UNCHANGED <<ro_i, ro_j, n_closed, passes, inVars, exceptRO>>

\* while test == 1: test = 0; for i in range(len(S1)-1)
WhileEnter ==
    /\ ro_pc = "while"
    /\ test = 1
    /\ test' = 0
    /\ ro_i' = 0
    /\ passes' = passes + 1
    /\ ro_pc' = "for"
    /\ UNCHANGED <<ro_j, S1, N1, ro_rotations, V, n_closed, inVars, exceptRO>>

\* the while loop ends; n_closed = 0; for j in range(N_cas, len(S1))
WhileExit ==
    /\ ro_pc = "while"
    /\ test # 1
    /\ n_closed' = 0
    /\ ro_j' = n_cas
    /\ ro_pc' = "closed"
    /\ UNCHANGED <<test, ro_i, S1, N1, ro_rotations, V, passes, inVars, exceptRO>>

\* one iteration of the for loop that exchanges S1[i] and S1[i+1]
BubbleSwap ==
    /\ ro_pc = "for"
    /\ ro_i < NOrb - 1
    /\ NeedsSwap(S1[ro_i], S1[ro_i + 1])
    /\ test' = 1
    /\ S1' = SwapAdjacent(S1, ro_i)
    /\ N1' = SwapAdjacent(N1, ro_i)
    /\ ro_rotations' = ro_rotations \o <<SwapRecord(ro_i)>>
    /\ V' = MatMul(Transposition(NOrb, ro_i), V)
    /\ ro_i' = ro_i + 1
    /\ UNCHANGED <<ro_pc, ro_j, n_closed, passes, inVars, exceptRO>>

\* one iteration of the for loop that leaves the pair alone
BubbleKeep ==
    /\ ro_pc = "for"
    /\ ro_i < NOrb - 1
    /\ ~NeedsSwap(S1[ro_i], S1[ro_i + 1])
    /\ ro_i' = ro_i + 1
    /\ UNCHANGED <<ro_pc, test, ro_j, S1, N1, ro_rotations, V, n_closed, passes,
                   inVars, exceptRO>>

\* the for loop is exhausted: back to the while condition
BubblePassEnd ==
    /\ ro_pc = "for"
    /\ ro_i >= NOrb - 1
    /\ ro_pc' = "while"
    /\ UNCHANGED <<test, ro_i, ro_j, S1, N1, ro_rotations, V, n_closed, passes,
                   inVars, exceptRO>>

\* for i in range(j): exchange positions j-1-i and j-i, record, compose
RECURSIVE ShiftToFront(_, _, _)
ShiftToFront(st, j, i) ==
    IF i >= j THEN st
    ELSE ShiftToFront(
            [S |-> SwapAdjacent(st.S, j - 1 - i),
             N |-> SwapAdjacent(st.N, j - 1 - i),
             rot |-> st.rot \o <<<<j - i, j - i + 1, 0>>>>,
             V |-> MatMul(Transposition(NOrb, j - 1 - i), st.V)],
            j, i + 1)

\* if N1[j] > 1: n_closed += 1 and the orbital is shifted to the front
ClosedMove ==
    /\ ro_pc = "closed"
    /\ ro_j < NOrb
    /\ N1[ro_j] > 8
    /\ n_closed' = n_closed + 1
    /\ LET st == ShiftToFront([S |-> S1, N |-> N1, rot |-> ro_rotations, V |-> V],
                              ro_j, 0)
       IN /\ S1' = st.S
          /\ N1' = st.N
          /\ ro_rotations' = st.rot
          /\ V' = st.V
    /\ ro_j' = ro_j + 1
    /\ UNCHANGED <<ro_pc, test, ro_i, passes, inVars, exceptRO>>

ClosedSkip ==
    /\ ro_pc = "closed"
    /\ ro_j < NOrb
    /\ ~(N1[ro_j] > 8)
    /\ ro_j' = ro_j + 1
    /\ UNCHANGED <<ro_pc, test, ro_i, S1, N1, ro_rotations, V, n_closed, passes,
                   inVars, exceptRO>>

\* return rotations, n_closed, V
ReorderReturn ==
    /\ ro_pc = "closed"
    /\ ro_j >= NOrb
    /\ ro_pc' = "done"
    /\ UNCHANGED <<test, ro_i, ro_j, S1, N1, ro_rotations, V, n_closed, passes,
                   inVars, exceptRO>>

ROInit ==
    /\ RFIdle
    /\ XFIdle
    /\ JDIdle
    /\ MOIdle
    /\ TCIdle
    /\ orbs \in [Idx(NOrb) -> OrbChoices]
    /\ n_cas \in 0 .. NOrb
    /\ n_core = 0
    /\ ro_pc = "call"
    /\ test = 0
    /\ ro_i = 0
    /\ ro_j = 0
    /\ S1 = <<>>
    /\ N1 = <<>>
    /\ ro_rotations = <<>>
    /\ V = <<>>
    /\ n_closed = 0
    /\ passes = 0

RONext ==
    \/ ReorderCall
    \/ WhileEnter
    \/ WhileExit
    \/ BubbleSwap
    \/ BubbleKeep
    \/ BubblePassEnd
    \/ ClosedMove
    \/ ClosedSkip
    \/ ReorderReturn

SpecReorder == ROInit /\ [][RONext]_vars

-----------------------------------------------------------------------------
(* Properties of reorder *)

\* the bubble sort is running, or has just ended and nothing else has run
BubbleEnded == ro_pc = "closed" /\ ro_j = n_cas /\ n_closed = 0
InBubblePhase == ro_pc \in {"while", "for"} \/ BubbleEnded

\* C6: the bubble-sort phase of reorder terminates (the while loop is
\* entered at most N times), appends at most N*(N-1)/2 records, each
\* <<k, k+1, 0>> with 1-based k, and leaves the entropies non-increasing.
C6_BubbleSortBound ==
    /\ InBubblePhase =>
          /\ passes <= NOrb
          /\ 2 * Len(ro_rotations) <= NOrb * (NOrb - 1)
          /\ \A m \in 1 .. Len(ro_rotations) :
                \E k \in 1 .. (NOrb - 1) : ro_rotations[m] = <<k, k + 1, 0>>
    /\ BubbleEnded =>
          \A k \in Idx(NOrb - 1) : S1[k] >= S1[k + 1]

\* the bubble sort has ended after the largest number of swaps
C6_Witness ==
    /\ BubbleEnded
    /\ 2 * Len(ro_rotations) = NOrb * (NOrb - 1)
    /\ passes = NOrb

-----------------------------------------------------------------------------
(* Properties of reorder_fast *)

IsPermutationMatrix(M) ==
    /\ DOMAIN M = Idx(NOrb)
    /\ \A r \in Idx(NOrb) : DOMAIN M[r] = Idx(NOrb)
    /\ \A r, c \in Idx(NOrb) : M[r][c] \in {0, 1}
    /\ \A r \in Idx(NOrb) : Cardinality({c \in Idx(NOrb) : M[r][c] = 1}) = 1
    /\ \A c \in Idx(NOrb) : Cardinality({r \in Idx(NOrb) : M[r][c] = 1}) = 1

\* P @ P.T == np.eye(n)
OrthogonalMatrix(M) ==
    \A r, q \in Idx(NOrb) :
        SumOver([c \in Idx(NOrb) |-> M[r][c] * M[q][c]], Idx(NOrb))
            = IF r = q THEN 1 ELSE 0

\* the orbital that row r of P selects
OrbitalAt(r) == CHOOSE c \in Idx(NOrb) : P[r][c] = 1

CoreRows == {r \in Idx(NOrb) : r < n_core}
ActiveRows == {r \in Idx(NOrb) : n_core <= r /\ r < n_core + n_cas}
VirtualRows == {r \in Idx(NOrb) : n_core + n_cas <= r}

\* non-increasing occupation along the rows of a block
OccDescending(rows) ==
    \A r, q \in rows : r < q => occ_init[OrbitalAt(r)] >= occ_init[OrbitalAt(q)]

\* C1: for every RDM pair and every (n_cas, n_core) with n_core + n_cas <= N,
\* reorder_fast returns normally (no assertion failure, no other error) with
\* a 0/1 permutation matrix P, P @ P.T the identity, and P applied to the
\* original entropy vector equal to the tracked sorted entropy vector.
C1_ReorderFastAlwaysReturns ==
    rf_pc = "done" =>
        /\ rf_outcome = "ok"
        /\ IsPermutationMatrix(P)
        /\ OrthogonalMatrix(P)
        /\ MatVec(P, s_val_init) = s_val

\* C8: when reorder_fast returns P for n_core + n_cas < N, rows
\* [n_core, n_core+n_cas) hold exactly the n_cas orbitals of highest entropy,
\* rows [0, n_core) the n_core orbitals of largest occupation among the
\* others, the remaining rows the rest, none of them more occupied than a
\* core orbital, and every block is in non-increasing occupation order.
C8_ReorderFastBlocks ==
    (rf_pc = "done" /\ rf_outcome = "ok" /\ n_core + n_cas < NOrb) =>
        /\ IsPermutationMatrix(P)
        /\ \A a \in ActiveRows : \A b \in Idx(NOrb) \ ActiveRows :
              s_val_init[OrbitalAt(a)] >= s_val_init[OrbitalAt(b)]
        /\ \A c \in CoreRows : \A v \in VirtualRows :
              occ_init[OrbitalAt(c)] >= occ_init[OrbitalAt(v)]
        /\ OccDescending(CoreRows)
        /\ OccDescending(ActiveRows)
        /\ OccDescending(VirtualRows)

\* reorder_fast has returned a three-block order in which the entropy order
\* and the occupation order disagree
C8_Witness ==
    /\ rf_pc = "done" /\ rf_outcome = "ok"
    /\ n_core = 1 /\ n_cas = 1 /\ n_core + n_cas < NOrb
    /\ P # Eye(NOrb)
    /\ occ_init[OrbitalAt(0)] > occ_init[OrbitalAt(1)]
    /\ s_val_init[OrbitalAt(1)] > s_val_init[OrbitalAt(0)]
    /\ occ_init[OrbitalAt(0)] > occ_init[OrbitalAt(2)]

-----------------------------------------------------------------------------
(* jacobi_transform *)

\* The angle is counted in quarter turns, where cosine and sine are whole
\* numbers: u1 = [[cos t, sin t], [-sin t, cos t]].
QuarterCos == <<1, 0, -1, 0>>
QuarterSin == <<0, 1, 0, -1>>
Cos(t) == QuarterCos[(t % 4) + 1]
Sin(t) == QuarterSin[(t % 4) + 1]

Spin(n) == Idx(2 * n) \X Idx(2 * n)
Quad(n) == Idx(n) \X Idx(n) \X Idx(n) \X Idx(n)

\* U1 = np.eye(no) with the 2x2 block u1 at rows and columns i, j
RotationMatrix(n, i, j, t) ==
    [r \in Idx(n) |-> [c \in Idx(n) |->
        IF r = i /\ c = i THEN Cos(t)
        ELSE IF r = i /\ c = j THEN Sin(t)
        ELSE IF r = j /\ c = i THEN 0 - Sin(t)
        ELSE IF r = j /\ c = j THEN Cos(t)
        ELSE IF r = c THEN 1 ELSE 0]]

\* one index of the contraction 'ia,jb,kc,ld,abcd->ijkl': index number pos
\* of T is contracted with the columns of M
ContractIndex(M, T, n, pos) ==
    [q \in Quad(n) |->
        SumIdx([a \in Idx(n) |-> M[q[pos]][a] * T[[q EXCEPT ![pos] = a]]], n)]

\* np.einsum('ia,jb,kc,ld,abcd->ijkl', U1, U1, U1, U1, Gamma)
RotateGamma2(M, T, n) ==
    ContractIndex(M, ContractIndex(M, ContractIndex(M, ContractIndex(M, T, n, 4),
                                                    n, 3), n, 2), n, 1)

\* m_list / n_list: list(set([a, i, j])) when a is i or j, else [a]
MixList(a, i, j) == IF a = i \/ a = j THEN {a, i, j} ELSE {a}

\* the loop over a, b that fills gamma_ = np.zeros((2*no, 2*no)): entries
\* [2a, 2b] and [2a+1, 2b+1] are summed over m_list x n_list when a or b is
\* one of i, j, and copied otherwise; no other entry is written
RotateGamma1(M, g, n, i, j) ==
    [rc \in Spin(n) |->
        LET r == rc[1]
            c == rc[2]
            a == r \div 2
            b == c \div 2
            s == r % 2
        IN
        IF r % 2 # c % 2 THEN 0
        ELSE IF a \in {i, j} \/ b \in {i, j}
        THEN LET pairs == MixList(a, i, j) \X MixList(b, i, j) IN
             SumOver([mn \in pairs |->
                        M[a][mn[1]] * M[b][mn[2]] * g[<<2 * mn[1] + s, 2 * mn[2] + s>>]],
                     pairs)
        ELSE g[rc]]

\* jacobi_transform(gamma, Gamma, i, j, t)
JacobiTransform ==
    /\ xf_pc = "call"
    /\ LET U1 == RotationMatrix(NOrb, xf_i, xf_j, xf_t) IN
       /\ Gamma_' = RotateGamma2(U1, Gamma, NOrb)
       /\ gamma_' = RotateGamma1(U1, gamma, NOrb, xf_i, xf_j)
    /\ xf_pc' = "done"
    /\ UNCHANGED <<gamma, Gamma, xf_i, xf_j, xf_t, exceptXF>>

\* 1-RDMs: distinct occupations on the diagonal and at most one further
\* entry, anywhere off the diagonal
Gamma1Choices ==
    LET diag == [rc \in Spin(NOrb) |-> IF rc[1] = rc[2] THEN rc[1] + 1 ELSE 0] IN
    {diag} \cup
    {[diag EXCEPT ![rc] = 1] : rc \in {x \in Spin(NOrb) : x[1] # x[2]}}

\* 2-RDMs: the double occupations on the diagonal and at most one further
\* entry
Gamma2Choices ==
    LET diag == [q \in Quad(NOrb) |->
                    IF q[1] = q[2] /\ q[2] = q[3] /\ q[3] = q[4] THEN q[1] + 1 ELSE 0]
    IN
    {diag} \cup
    {[diag EXCEPT ![q] = 1] : q \in {<<0, 1, 0, 1>>, <<0, 0, 1, 1>>, <<1, 2, 2, 1>>}}

XFInit ==
    /\ InputsIdle
    /\ RFIdle
    /\ ROIdle
    /\ JDIdle
    /\ MOIdle
    /\ TCIdle
    /\ xf_pc = "call"
    /\ gamma \in Gamma1Choices
    /\ Gamma \in Gamma2Choices
    /\ xf_i \in Idx(NOrb)
    /\ xf_j \in Idx(NOrb) \ {xf_i}
    /\ xf_t \in 0 .. 1
    /\ gamma_ = <<>>
    /\ Gamma_ = <<>>

XFNext == JacobiTransform

SpecTransform == XFInit /\ [][XFNext]_vars

-----------------------------------------------------------------------------
(* Properties of jacobi_transform *)

\* C2: for every 1-RDM, spin-mixed entries included, every 2-RDM and every
\* pair i # j, jacobi_transform at angle 0 returns the pair entry by entry.
C2_ZeroAngleIsIdentity ==
    (xf_pc = "done" /\ xf_t = 0) => (gamma_ = gamma /\ Gamma_ = Gamma)

\* what remains true at angle 0: the 2-RDM and the same-spin entries of the
\* 1-RDM are returned as passed
C2_ZeroAngleSameSpin ==
    (xf_pc = "done" /\ xf_t = 0) =>
        /\ Gamma_ = Gamma
        /\ \A rc \in Spin(NOrb) : rc[1] % 2 = rc[2] % 2 => gamma_[rc] = gamma[rc]

-----------------------------------------------------------------------------
(* jacobi_cost and jacobi_direct *)

\* Python's None, for an angle
None == 0 - 1

\* 1e-8, the tolerance of the fine scan, in cost units
FineTol == 1

\* every angle a scan can examine
Angles == 0 .. ((CoarsePoints + 1) * FinePerCoarse)

CostLevels == {0, 1, 2, 3}

\* jacobi_cost(theta, i, j, rdm1, rdm2, inactive_indices) as a function of
\* theta: L is the cost of the pair for the RDMs as first passed and o the
\* angle jacobi_transform has rotated the pair by since.  u1(theta) is
\* contracted against the 2x2 blocks that the transform has contracted with
\* U1(o), so the cost is that of the first RDMs at angle o + theta.
JacobiCost(L, o, theta) == L[o + theta]

\* for t in np.arange(grid, np.pi, grid): the k-th point and those after it
RECURSIVE CoarseScan(_, _, _, _)
CoarseScan(L, o, k, st) ==
    IF k > CoarsePoints THEN st
    ELSE LET t == k * FinePerCoarse
             cost_t == JacobiCost(L, o, t)
         IN CoarseScan(L, o, k + 1,
                       IF st.cost > cost_t
                       THEN [t_opt |-> t, cost |-> cost_t]
                       ELSE st)

\* faulty variant: the fine scan accepts any strictly lower cost
FineAccepts_NoTolerance(cost, cost_t) == cost > cost_t

\* if cost > new_cost + 1e-8
FineAccepts(cost, cost_t) == cost > cost_t + FineTol

\* for t in np.arange(t_opt-grid, t_opt+grid, small_grid): the points from
\* t on; last is the last point of the window
RECURSIVE FineScan(_, _, _, _, _)
FineScan(L, o, t, last, st) ==
    IF t > last THEN st
    ELSE LET cost_t == JacobiCost(L, o, t) IN
         FineScan(L, o, t + 1, last,
                  IF FineAccepts(st.cost, cost_t)
                  THEN [test |-> 1, t_opt_new |-> t, cost |-> cost_t]
                  ELSE st)

\* the window of the fine scan after the coarse scan of L.  np.arange with
\* a fractional step has ceil((stop - start) / step) points, which rounding
\* makes 2*grid/small_grid or one more: extra is 0 or 1.
FineWindow(L, o, extra) ==
    LET coarse == CoarseScan(L, o, 1, [t_opt |-> 0, cost |-> JacobiCost(L, o, 0)])
        t_opt == IF coarse.t_opt = 0 THEN FinePerCoarse ELSE coarse.t_opt
    IN [first |-> t_opt - FinePerCoarse,
        last |-> t_opt + FinePerCoarse - 1 + extra,
        cost |-> coarse.cost]

\* jacobi_direct(i, j, gamma, Gamma, inactive_indices)
JacobiDirect(L, o, extra) ==
    LET w == FineWindow(L, o, extra)
        fine == FineScan(L, o, w.first, w.last,
                         [test |-> 0, t_opt_new |-> None, cost |-> w.cost])
    IN IF fine.test = 1 THEN fine.t_opt_new ELSE None

\* costs of one pair: flat but for at most two angles
Landscapes ==
    {[a \in Angles |-> IF a = p THEN v ELSE IF a = q THEN w ELSE b] :
        p \in Angles, q \in Angles, v \in CostLevels, w \in CostLevels,
        b \in CostLevels}

\* t = jacobi_direct(i, j, gamma0, Gamma0, inactive_indices)
JacobiDirectCall ==
    /\ jd_pc = "call"
    /\ \E extra \in {0, 1} : jd_result' = JacobiDirect(land, orient, extra)
    /\ jd_pc' = "returned"
    /\ UNCHANGED <<land, orient, exceptJD>>

\* if t != None: gamma0, Gamma0 = jacobi_transform(gamma0, Gamma0, i, j, t)
ApplyRotation ==
    /\ jd_pc = "returned"
    /\ jd_result # None
    /\ orient' = orient + jd_result
    /\ jd_pc' = "transformed"
    /\ UNCHANGED <<land, jd_result, exceptJD>>

\* t is None: the pair is left as it is
KeepOrbitals ==
    /\ jd_pc = "returned"
    /\ jd_result = None
    /\ jd_pc' = "kept"
    /\ UNCHANGED <<land, orient, jd_result, exceptJD>>

JDInit ==
    /\ InputsIdle
    /\ RFIdle
    /\ ROIdle
    /\ XFIdle
    /\ MOIdle
    /\ TCIdle
    /\ jd_pc = "call"
    /\ land \in Landscapes
    /\ orient = 0
    /\ jd_result = None

JDNext ==
    \/ JacobiDirectCall
    \/ ApplyRotation
    \/ KeepOrbitals

SpecDirect == JDInit /\ [][JDNext]_vars

-----------------------------------------------------------------------------
(* Properties of jacobi_direct *)

\* the angles of the coarse grid
CoarseAngles == {k * FinePerCoarse : k \in 1 .. CoarsePoints}

\* the angles the two scans of the returned call may have examined
ExaminedAngles ==
    CoarseAngles \cup
    {a \in Angles : \E extra \in {0, 1} :
        LET w == FineWindow(land, 0, extra) IN w.first <= a /\ a <= w.last}

\* C3: when jacobi_direct returns an angle t, jacobi_cost at angle 0 of the
\* RDMs transformed by t is lower than jacobi_cost at angle 0 of the RDMs
\* passed by more than 1e-8, and so is the cost at angle t of the RDMs
\* passed.
C3_AcceptedAngleLowersCost ==
    /\ (jd_pc # "call" /\ jd_result # None) =>
          JacobiCost(land, 0, jd_result) + FineTol < JacobiCost(land, 0, 0)
    /\ jd_pc = "transformed" =>
          JacobiCost(land, orient, 0) + FineTol < JacobiCost(land, 0, 0)

\* an angle found by the fine scan after the coarse scan had moved has been
\* applied
C3_Witness ==
    /\ jd_pc = "transformed"
    /\ jd_result \notin CoarseAngles
    /\ jd_result > FinePerCoarse
    /\ land[0] - land[orient] = 3

\* C7: jacobi_direct returns None only if no examined angle lowers the
\* cost: whenever an examined angle has a cost lower than the cost at angle
\* 0 by more than 1e-8, an angle is returned.
C7_NoneOnlyWithoutImprovement ==
    (jd_pc # "call" /\ \E a \in ExaminedAngles : land[a] + FineTol < land[0])
        => jd_result # None

-----------------------------------------------------------------------------
(* minimize_orb_corr_jacobi *)

\* An aggregate cost is h * 100 + e * 1e-8: two limbs, because the initial
\* value 100 of cost, new_cost and cycle_cost is 1e10 cost units.  The low
\* limb stays far below 1e10.
Cost(h, e) == [h |-> h, e |-> e]

\* cost = 100; new_cost = 100; cycle_cost = 100
InitialCost == Cost(1, 0)

\* tol = 1e-7, in cost units
CycleTol == 10

\* a - b < tol
DiffBelow(a, b, tol) == IF a.h # b.h THEN a.h < b.h ELSE a.e - b.e < tol

\* a - b >= tol
DiffAtLeast(a, b, tol) == ~DiffBelow(a, b, tol)

\* An RDM is written as the transforms applied to the caller's array, in
\* order; a rotation matrix as its factors, leftmost first.  A two-orbital
\* rotation is <<i, j, t>>: jacobi_transform's U1 and jacobi_step's V put
\* the same block [[cos t, sin t], [-sin t, cos t]] at rows and columns i, j.
Perturbation == <<None, None, None>>

\* copy.deepcopy(gamma)
DeepCopy(rdm) == rdm

\* np.einsum(..., U_, U_, gamma0) and np.einsum(..., U, U, U, U, Gamma0)
Perturbed(rdm) == Append(rdm, Perturbation)

\* gamma0, Gamma0 = jacobi_transform(gamma0, Gamma0, i, j, t)
Transformed(g, G, i, j, t) == <<Append(g, <<i, j, t>>), Append(G, <<i, j, t>>)>>

\* jacobi_step(t, i, j)
JacobiStep(t, i, j) == <<i, j, t>>

\* faulty variant: the new rotation is multiplied from the right
MatMulLeft_Right(step, u) == Append(u, step)

\* U = np.matmul(jacobi_step(t, i, j), U)
MatMulLeft(step, u) == <<step>> \o u

\* t/np.pi*180, in units of 1e-6 degree, for t in steps of 1e-4 rad
Degrees(t) == (t * 5729578) \div 1000

\* [i+1, j+1, t/np.pi*180]
HistoryRecord(i, j, t) == <<i + 1, j + 1, Degrees(t)>>

\* the pair after (a, b) in: for a in range(no): for b in range(a)
NextPair(a, b) == IF b + 1 < a THEN <<a, b + 1>> ELSE <<a + 1, 0>>

\* costs of the pair the sweep is at: flat but for two of the first angles
SweepLandscapes ==
    {[a \in Angles |-> IF a = p THEN v ELSE IF a = q THEN w ELSE b] :
        p \in {1, 3}, q \in {2}, v \in {0, 6, 16}, w \in {0, 6, 16}, b \in {6, 16}}

\* what jacobi_direct can return for a pair, with the pair's cost before
\* and after the rotation it proposes
SweepOutcomes ==
    {LET t == JacobiDirect(L, 0, extra) IN
        [t |-> t, before |-> L[0], drop |-> IF t = None THEN 0 ELSE L[0] - L[t]] :
     L \in SweepLandscapes, extra \in {0, 1}}

\* the cost of one pair is part of the aggregate cost
PairCostFits(o) == agg.h > 0 \/ o.before <= agg.e

\* get_cost_fqi after the pair's cost has dropped
Lowered(c, drop) == [c EXCEPT !.e = @ - drop]

\* the copies, the random perturbation, rotations = [], the three costs
MinimizeCall ==
    /\ mo_pc = "call"
    /\ gamma0' = Perturbed(DeepCopy(gammaArg))
    /\ Gamma0' = Perturbed(DeepCopy(GammaArg))
    /\ U' = <<Perturbation>>
    /\ rotations' = <<>>
    /\ new_cost' = InitialCost
    /\ cycle_cost' = InitialCost
    /\ cyc' = 0
    /\ mo_pc' = "cycle"
    /\ UNCHANGED <<gammaArg, GammaArg, inactive_indices, max_cycle, orb_list, mo_a,
                   mo_b, agg, cycle_start, accepted, exceptMO>>

\* for n in range(max_cycle): np.random.shuffle(orb_list)
CycleBegin ==
    /\ mo_pc = "cycle"
    /\ cyc < max_cycle
    /\ orb_list' \in Perms(NOrb)
    /\ mo_a' = NextPair(0, 0)[1]
    /\ mo_b' = NextPair(0, 0)[2]
    /\ cycle_start' = agg
    /\ accepted' = 0
    /\ mo_pc' = "pairs"
    /\ UNCHANGED <<gammaArg, GammaArg, inactive_indices, max_cycle, gamma0, Gamma0,
                   U, rotations, new_cost, cycle_cost, cyc, agg, exceptMO>>

\* the pair (i, j) the two loops are at
PairI == orb_list[mo_a]
PairJ == orb_list[mo_b]
AtPair == mo_pc = "pairs" /\ mo_a < NOrb
Eligible == PairI \in inactive_indices \/ PairJ \in inactive_indices

\* neither orbital is inactive
PairSkip ==
    /\ AtPair
    /\ ~Eligible
    /\ mo_a' = NextPair(mo_a, mo_b)[1]
    /\ mo_b' = NextPair(mo_a, mo_b)[2]
    /\ UNCHANGED <<mo_pc, gammaArg, GammaArg, inactive_indices, max_cycle, gamma0,
                   Gamma0, U, rotations, new_cost, cycle_cost, cyc, orb_list, agg,
                   cycle_start, accepted, exceptMO>>

\* jacobi_direct returns None
PairNone ==
    /\ AtPair
    /\ Eligible
    /\ \E o \in SweepOutcomes : PairCostFits(o) /\ o.t = None
    /\ mo_a' = NextPair(mo_a, mo_b)[1]
    /\ mo_b' = NextPair(mo_a, mo_b)[2]
    /\ UNCHANGED <<mo_pc, gammaArg, GammaArg, inactive_indices, max_cycle, gamma0,
                   Gamma0, U, rotations, new_cost, cycle_cost, cyc, orb_list, agg,
                   cycle_start, accepted, exceptMO>>

\* jacobi_direct returns an angle: transform, record the cost, compose, log
PairRotate ==
    /\ AtPair
    /\ Eligible
    /\ \E o \in SweepOutcomes :
         /\ PairCostFits(o)
         /\ o.t # None
         /\ Lowered(agg, o.drop).e >= 0
         /\ LET rdms == Transformed(gamma0, Gamma0, PairI, PairJ, o.t) IN
            /\ gamma0' = rdms[1]
            /\ Gamma0' = rdms[2]
         /\ agg' = Lowered(agg, o.drop)
         /\ new_cost' = agg'
         /\ U' = MatMulLeft(JacobiStep(o.t, PairI, PairJ), U)
         /\ rotations' = Append(rotations, HistoryRecord(PairI, PairJ, o.t))
    /\ accepted' = accepted + 1
    /\ mo_a' = NextPair(mo_a, mo_b)[1]
    /\ mo_b' = NextPair(mo_a, mo_b)[2]
    /\ UNCHANGED <<mo_pc, gammaArg, GammaArg, inactive_indices, max_cycle, cycle_cost,
                   cyc, orb_list, cycle_start, exceptMO>>

AtCycleEnd == mo_pc = "pairs" /\ mo_a >= NOrb

\* if cycle_cost - new_cost < tol
Converged(last, now) == DiffBelow(last, now, CycleTol)

\* break
CycleConverged ==
    /\ AtCycleEnd
    /\ Converged(cycle_cost, new_cost)
    /\ mo_pc' = "done"
    /\ UNCHANGED <<gammaArg, GammaArg, inactive_indices, max_cycle, gamma0, Gamma0,
                   U, rotations, new_cost, cycle_cost, cyc, orb_list, mo_a, mo_b, agg,
                   cycle_start, accepted, exceptMO>>

\* cycle_cost = new_cost, and on to the next n
CycleContinue ==
    /\ AtCycleEnd
    /\ ~Converged(cycle_cost, new_cost)
    /\ cycle_cost' = new_cost
    /\ cyc' = cyc + 1
    /\ mo_pc' = "cycle"
    /\ UNCHANGED <<gammaArg, GammaArg, inactive_indices, max_cycle, gamma0, Gamma0,
                   U, rotations, new_cost, orb_list, mo_a, mo_b, agg, cycle_start,
                   accepted, exceptMO>>

\* range(max_cycle) is exhausted: return rotations, U, gamma0, Gamma0
MinimizeReturn ==
    /\ mo_pc = "cycle"
    /\ cyc >= max_cycle
    /\ mo_pc' = "done"
    /\ UNCHANGED <<gammaArg, GammaArg, inactive_indices, max_cycle, gamma0, Gamma0,
                   U, rotations, new_cost, cycle_cost, cyc, orb_list, mo_a, mo_b, agg,
                   cycle_start, accepted, exceptMO>>

\* aggregate costs of the RDMs passed: below and above the tolerance, and
\* above 100 (from 73 inactive orbitals on, the entropy of each being at
\* most log 4)
AggChoices == {Cost(0, 6), Cost(0, 16), Cost(1, 16)}

MOInit ==
    /\ InputsIdle
    /\ RFIdle
    /\ ROIdle
    /\ XFIdle
    /\ JDIdle
    /\ TCIdle
    /\ mo_pc = "call"
    /\ gammaArg = <<>>
    /\ GammaArg = <<>>
    /\ inactive_indices \in {{0}, {1, 2}}
    /\ max_cycle \in 0 .. MaxCycle
    /\ gamma0 = <<>>
    /\ Gamma0 = <<>>
    /\ U = <<>>
    /\ rotations = <<>>
    /\ new_cost = Cost(0, 0)
    /\ cycle_cost = Cost(0, 0)
    /\ cyc = 0
    /\ orb_list = <<>>
    /\ mo_a = 0
    /\ mo_b = 0
    /\ agg \in AggChoices
    /\ cycle_start = agg
    /\ accepted = 0

MONext ==
    \/ MinimizeCall
    \/ CycleBegin
    \/ PairSkip
    \/ PairNone
    \/ PairRotate
    \/ CycleConverged
    \/ CycleContinue
    \/ MinimizeReturn

SpecMinimize == MOInit /\ [][MONext]_vars

-----------------------------------------------------------------------------
(* Properties of minimize_orb_corr_jacobi *)

Started == mo_pc \in {"cycle", "pairs", "done"}

\* the factors of a product, rightmost first
RightToLeft(u) == [k \in 1 .. Len(u) |-> u[Len(u) + 1 - k]]

\* C9: every accepted rotation is applied to gamma0 and Gamma0 alike (they
\* carry the same transforms), U is the product R_k ... R_1 U0 of the
\* accepted rotations composed from the left onto the perturbation, the
\* history holds one record [i+1, j+1, angle in degrees] per accepted
\* rotation in order, and the caller's gamma and Gamma are never modified.
C9_RotationsComposeAndInputsKept ==
    /\ gammaArg = <<>>
    /\ GammaArg = <<>>
    /\ Started =>
        /\ gamma0 = Gamma0
        /\ Len(gamma0) = Len(rotations) + 1
        /\ gamma0[1] = Perturbation
        /\ RightToLeft(U) = gamma0
        /\ \A m \in 1 .. Len(rotations) :
              LET R == gamma0[m + 1] IN
                /\ R[1] \in Idx(NOrb)
                /\ R[2] \in Idx(NOrb)
                /\ rotations[m] = <<R[1] + 1, R[2] + 1, Degrees(R[3])>>

\* two rotations of different pairs were accepted and the optimizer returned
C9_Witness ==
    /\ mo_pc = "done"
    /\ Len(rotations) >= 2
    /\ <<rotations[1][1], rotations[1][2]>> # <<rotations[2][1], rotations[2][2]>>
    /\ U[1] # U[2]

\* C10: at most max_cycle cycles run; from the second cycle on the loop
\* stops at the end of a cycle exactly when the recorded cost is less than
\* 1e-7 below the one recorded at the end of the cycle before; a cycle
\* without an accepted rotation is the last one; and a cycle over which the
\* aggregate cost dropped by at least 1e-7 is followed by another cycle
\* unless max_cycle is reached.
C10_StopsExactlyOnSmallDecrease ==
    [][/\ cyc' <= max_cycle
       /\ (AtCycleEnd /\ mo_pc' # "pairs") =>
            /\ cyc < max_cycle
            /\ cyc >= 1 => (mo_pc' = "done" <=> DiffBelow(cycle_cost, new_cost, CycleTol))
            /\ accepted = 0 => mo_pc' = "done"
            /\ (DiffAtLeast(cycle_start, agg, CycleTol) /\ cyc + 1 < max_cycle)
                   => mo_pc' = "cycle"]_vars

\* the same for runs whose aggregate cost stays below the initial 100
C10_BelowInitialCost ==
    [][(AtCycleEnd /\ mo_pc' # "pairs" /\ agg.h = 0) =>
            /\ cyc >= 1 => (mo_pc' = "done" <=> DiffBelow(cycle_cost, new_cost, CycleTol))
            /\ accepted = 0 => mo_pc' = "done"
            /\ (DiffAtLeast(cycle_start, agg, CycleTol) /\ cyc + 1 < max_cycle)
                   => mo_pc' = "cycle"]_vars

-----------------------------------------------------------------------------
(* make_tailored_ccsd *)

\* 1e-8, in the unit of the CI coefficients (1e-9)
C0Tol == 10

Abs(x) == IF x < 0 THEN 0 - x ELSE x

\* x / y for the coefficients drawn below, all of them multiples of y
Quotient(x, y) == IF y > 0 THEN x \div y ELSE (0 - x) \div (0 - y)

\* faulty variant: a weight of exactly 1e-8 passes
AssertHolds_AtTolerance(c) == Abs(c) >= C0Tol

\* assert (abs(c0) > 1e-8)
AssertHolds(c) == Abs(c) > C0Tol

\* t1 = c1/c0
GetCasT1(cc1, cc0) ==
    [i \in Idx(NOcc) |-> [a \in Idx(NVir) |-> Quotient(cc1[i][a], cc0)]]

\* t2 = c2/c0 - einsum('ia,jb->ijab', t1, t1)
GetCasT2(cc2, cc0, t1) ==
    [i \in Idx(NOcc) |-> [j \in Idx(NOcc) |-> [a \in Idx(NVir) |-> [b \in Idx(NVir) |->
        Quotient(cc2[i][j][a][b], cc0) - t1[i][a] * t1[j][b]]]]]

\* the array f[0], ..., f[n-1], held entry by entry
RECURSIVE Table(_, _)
Table(f, n) ==
    IF n = 1 THEN 0 :> f[0] ELSE Table(f, n - 1) @@ ((n - 1) :> f[n - 1])

\* einsum('IA,Ii,Aa->ia', t1, pocc, pvir)
Project1(t1, po, pv) ==
    Table([i \in Idx(NOcc) |-> Table([a \in Idx(NVir) |->
        SumIdx([I \in Idx(NOcc) |-> SumIdx([A \in Idx(NVir) |->
            t1[I][A] * po[I][i] * pv[A][a]], NVir)], NOcc)], NVir)], NOcc)

\* einsum('ia,Ii,Aa->IA', dt1, pocc, pvir)
Rotate1(d1, po, pv) ==
    Table([I \in Idx(NOcc) |-> Table([A \in Idx(NVir) |->
        SumIdx([i \in Idx(NOcc) |-> SumIdx([a \in Idx(NVir) |->
            d1[i][a] * po[I][i] * pv[A][a]], NVir)], NOcc)], NVir)], NOcc)

\* einsum('IJAB,Ii,Jj,Aa,Bb->ijab', t2, pocc, pocc, pvir, pvir)
Project2(t2, po, pv) ==
    Table([i \in Idx(NOcc) |-> Table([j \in Idx(NOcc) |->
      Table([a \in Idx(NVir) |-> Table([b \in Idx(NVir) |->
        SumIdx([I \in Idx(NOcc) |-> SumIdx([J \in Idx(NOcc) |->
            SumIdx([A \in Idx(NVir) |-> SumIdx([B \in Idx(NVir) |->
                t2[I][J][A][B] * po[I][i] * po[J][j] * pv[A][a] * pv[B][b]],
            NVir)], NVir)], NOcc)], NOcc)], NVir)], NVir)], NOcc)], NOcc)

\* einsum('ijab,Ii,Jj,Aa,Bb->IJAB', dt2, pocc, pocc, pvir, pvir)
Rotate2(d2, po, pv) ==
    Table([I \in Idx(NOcc) |-> Table([J \in Idx(NOcc) |->
      Table([A \in Idx(NVir) |-> Table([B \in Idx(NVir) |->
        SumIdx([i \in Idx(NOcc) |-> SumIdx([j \in Idx(NOcc) |->
            SumIdx([a \in Idx(NVir) |-> SumIdx([b \in Idx(NVir) |->
                d2[i][j][a][b] * po[I][i] * po[J][j] * pv[A][a] * pv[B][b]],
            NVir)], NVir)], NOcc)], NOcc)], NVir)], NVir)], NOcc)], NOcc)

\* faulty variant: the difference is taken CCSD-FCI
Difference_Reversed(fci, ccsd) == ccsd - fci

\* one entry of t1cas_fci - t1cas_cc, of t2cas_fci - t2cas_cc
Difference(fci, ccsd) == fci - ccsd

Diff1(x, y) ==
    Table([i \in Idx(NOcc) |-> Table([a \in Idx(NVir) |->
        Difference(x[i][a], y[i][a])], NVir)], NOcc)

Diff2(x, y) ==
    Table([i \in Idx(NOcc) |-> Table([j \in Idx(NOcc) |->
      Table([a \in Idx(NVir) |-> Table([b \in Idx(NVir) |->
        Difference(x[i][j][a][b], y[i][j][a][b])], NVir)], NVir)], NOcc)], NOcc)

\* t1 += dt1
Add1(x, y) == [i \in Idx(NOcc) |-> [a \in Idx(NVir) |-> x[i][a] + y[i][a]]]

\* t2 += dt2
Add2(x, y) ==
    [i \in Idx(NOcc) |-> [j \in Idx(NOcc) |-> [a \in Idx(NVir) |-> [b \in Idx(NVir) |->
        x[i][j][a][b] + y[i][j][a][b]]]]]

\* get_cas_t1t2 raises: nothing after line 43 runs
MakeTailoredRaises ==
    /\ tc_pc = "call"
    /\ ~AssertHolds(c0)
    /\ tc_pc' = "raised"
    /\ tc_result' = "AssertionError"
    /\ UNCHANGED <<c0, c1, c2, pocc, pvir, cc_callback, t1cas_fci, t2cas_fci, t1new,
                   t2new, dt1, dt2, exceptTC>>

\* the targets are computed, the callback is installed, cc is returned
MakeTailoredReturns ==
    /\ tc_pc = "call"
    /\ AssertHolds(c0)
    /\ t1cas_fci' = GetCasT1(c1, c0)
    /\ t2cas_fci' = GetCasT2(c2, c0, t1cas_fci')
    /\ cc_callback' = "callback"
    /\ tc_result' = "cc"
    /\ tc_pc' = "returned"
    /\ UNCHANGED <<c0, c1, c2, pocc, pvir, t1new, t2new, dt1, dt2, exceptTC>>

\* callback(kwargs), on the arrays kwargs['t1new'] and kwargs['t2new']
Callback ==
    /\ tc_pc \in {"returned", "tailored"}
    /\ cc_callback = "callback"
    /\ dt1' = Rotate1(Diff1(t1cas_fci, Project1(t1new, pocc, pvir)), pocc, pvir)
    /\ dt2' = Rotate2(Diff2(t2cas_fci, Project2(t2new, pocc, pvir)), pocc, pvir)
    /\ t1new' = Add1(t1new, dt1')
    /\ t2new' = Add2(t2new, dt2')
    /\ tc_pc' = IF tc_pc = "returned" THEN "tailored" ELSE "tailored2"
    /\ UNCHANGED <<tc_result, c0, c1, c2, pocc, pvir, cc_callback, t1cas_fci,
                   t2cas_fci, exceptTC>>

\* trial amplitudes the solver can hold when it calls the callback
T1Choices ==
    {[I \in Idx(NOcc) |-> [A \in Idx(NVir) |-> x * (I + 1) + A]] : x \in {3}}

T2Choices ==
    {[I \in Idx(NOcc) |-> [J \in Idx(NOcc) |-> [A \in Idx(NVir) |-> [B \in Idx(NVir) |->
        y * (I + 2 * J + 1) + A - B]]]] : y \in {0, 2}}

\* the solver's next iteration: new trial amplitudes in kwargs
SolverIteration ==
    /\ tc_pc \in {"tailored", "tailored2"}
    /\ t1new' \in T1Choices
    /\ t2new' \in T2Choices
    /\ <<t1new', t2new'>> # <<t1new, t2new>>
    /\ tc_pc' = "returned"
    /\ UNCHANGED <<tc_result, c0, c1, c2, pocc, pvir, cc_callback, t1cas_fci,
                   t2cas_fci, dt1, dt2, exceptTC>>

\* CI coefficients, in units of 1e-9: c0 around the tolerance, c1 and c2
\* multiples of every c0 that passes it
C0Choices == {0 - 20, 0 - 10, 0, 10, 11, 20}

C1Choices ==
    {[i \in Idx(NOcc) |-> [a \in Idx(NVir) |-> 220 * k * (i + a + 1)]] : k \in {1, 2}}

C2Choices ==
    {[i \in Idx(NOcc) |-> [j \in Idx(NOcc) |-> [a \in Idx(NVir) |-> [b \in Idx(NVir) |->
        220 * k * (1 + i + j + a * b)]]]] : k \in {0 - 1, 1}}

\* overlaps of n CC orbitals with n CAS orbitals: the CAS orbitals are the
\* CC orbitals up to order and sign, or they are not orthonormal in them
SignedPermutation(n, perm, sgn) ==
    [r \in Idx(n) |-> [c \in Idx(n) |->
        IF perm[r] = c THEN (IF r = 0 THEN sgn ELSE 1) ELSE 0]]

Sheared(n) ==
    [r \in Idx(n) |-> [c \in Idx(n) |->
        IF r = c THEN 1 ELSE IF r = 0 /\ c = n - 1 THEN 1 ELSE 0]]

Scaled(n) == [r \in Idx(n) |-> [c \in Idx(n) |-> IF r = c THEN 2 ELSE 0]]

OverlapChoices(n) ==
    {SignedPermutation(n, perm, sgn) : perm \in Perms(n), sgn \in {1, 0 - 1}}
        \cup {Sheared(n), Scaled(n)}

TCInit ==
    /\ InputsIdle
    /\ RFIdle
    /\ ROIdle
    /\ XFIdle
    /\ JDIdle
    /\ MOIdle
    /\ tc_pc = "call"
    /\ tc_result = "none"
    /\ c0 \in C0Choices
    /\ c1 \in C1Choices
    /\ c2 \in C2Choices
    /\ pocc \in OverlapChoices(NOcc)
    /\ pvir \in OverlapChoices(NVir)
    /\ cc_callback = "None"
    /\ t1cas_fci = <<>>
    /\ t2cas_fci = <<>>
    /\ t1new \in T1Choices
    /\ t2new \in T2Choices
    /\ dt1 = <<>>
    /\ dt2 = <<>>

TCNext ==
    \/ MakeTailoredRaises
    \/ MakeTailoredReturns
    \/ Callback
    \/ SolverIteration

SpecTailored == TCInit /\ [][TCNext]_vars

-----------------------------------------------------------------------------
(* Properties of make_tailored_ccsd *)

\* M is a square orthogonal n x n matrix
SquareOrthogonal(M, n) ==
    \A r, q \in Idx(n) :
        SumIdx([c \in Idx(n) |-> M[r][c] * M[q][c]], n) = IF r = q THEN 1 ELSE 0

Zero1 == [i \in Idx(NOcc) |-> [a \in Idx(NVir) |-> 0]]

Zero2 ==
    [i \in Idx(NOcc) |-> [j \in Idx(NOcc) |-> [a \in Idx(NVir) |-> [b \in Idx(NVir) |->
        0]]]]

CallbackRan == tc_pc \in {"tailored", "tailored2"}

\* C4: with square orthogonal pocc and pvir, right after a call of the
\* callback the trial amplitudes projected into the active space are the
\* targets t1cas_fci and t2cas_fci, and a second call on the same arrays
\* adds a zero correction.
C4_CallbackReachesTargets ==
    (CallbackRan /\ SquareOrthogonal(pocc, NOcc) /\ SquareOrthogonal(pvir, NVir)) =>
        /\ Project1(t1new, pocc, pvir) = t1cas_fci
        /\ Project2(t2new, pocc, pvir) = t2cas_fci
        /\ tc_pc = "tailored2" => (dt1 = Zero1 /\ dt2 = Zero2)

\* a second call on the same arrays, with overlaps that permute and flip the
\* orbitals, nonzero targets, and trial amplitudes that the first call moved
C4_Witness ==
    /\ tc_pc = "tailored2"
    /\ SquareOrthogonal(pocc, NOcc)
    /\ SquareOrthogonal(pvir, NVir)
    /\ pocc # Eye(NOcc)
    /\ pocc[0][0] # 1
    /\ t1cas_fci # Zero1
    /\ t2cas_fci # Zero2
    /\ t1new \notin T1Choices
    /\ t2new \notin T2Choices

\* C5: with |c0| <= 1e-8 make_tailored_ccsd fails with an assertion error,
\* no callback is installed and no targets are produced; with |c0| > 1e-8
\* the callback is installed and the solver object is returned.
C5_AssertsReferenceWeight ==
    tc_pc # "call" =>
        /\ Abs(c0) <= C0Tol =>
            /\ tc_pc = "raised"
            /\ tc_result = "AssertionError"
            /\ cc_callback = "None"
            /\ t1cas_fci = <<>>
            /\ t2cas_fci = <<>>
        /\ Abs(c0) > C0Tol =>
            /\ tc_pc # "raised"
            /\ tc_result = "cc"
            /\ cc_callback = "callback"

\* the call failed with |c0| exactly 1e-8
C5_Witness == tc_pc = "raised" /\ Abs(c0) = C0Tol /\ cc_callback = "None"

=============================================================================
